---- MODULE Spec2Model ----
(***************************************************************************)
(* Mycodo sensor inputs: the BMP280 pressure/temperature driver            *)
(* (src/mycodo/inputs/bmp280.py) and the DS1822 thermometer                *)
(* (src/mycodo/inputs/ds1822.py).                                          *)
(***************************************************************************)
EXTENDS Integers, Sequences, FiniteSets, TLC

(***************************************************************************)
(* Python's int is unbounded; the compensation formulas of bmp280.py go    *)
(* well past 32 bits (1 << 47, p << 31).  An int is kept here in sign and  *)
(* magnitude, the magnitude as little-endian limbs in base 2^15 with no    *)
(* leading zero limb, so that every limb product stays below 2^31.         *)
(***************************************************************************)
LimbBits == 15

LimbBase == 2 ^ LimbBits

RECURSIVE MagOfNat(_)
MagOfNat(n) ==
    IF n = 0 THEN << >> ELSE << n % LimbBase >> \o MagOfNat(n \div LimbBase)

RECURSIVE MagTrim(_)
MagTrim(s) ==
    IF s = << >> THEN << >>
    ELSE IF s[Len(s)] = 0 THEN MagTrim(SubSeq(s, 1, Len(s) - 1))
    ELSE s

Limb(s, i) == IF i >= 1 /\ i <= Len(s) THEN s[i] ELSE 0

RECURSIVE MagAddFrom(_, _, _, _)
MagAddFrom(a, b, i, carry) ==
    IF i > Len(a) /\ i > Len(b)
    THEN (IF carry = 0 THEN << >> ELSE << carry >>)
    ELSE LET t == Limb(a, i) + Limb(b, i) + carry
         IN  << t % LimbBase >> \o MagAddFrom(a, b, i + 1, t \div LimbBase)

MagAdd(a, b) == MagAddFrom(a, b, 1, 0)

RECURSIVE MagSubFrom(_, _, _, _)
MagSubFrom(a, b, i, borrow) ==
    IF i > Len(a) THEN << >>
    ELSE LET t == Limb(a, i) - Limb(b, i) - borrow
         IN  << t % LimbBase >>
             \o MagSubFrom(a, b, i + 1, IF t < 0 THEN 1 ELSE 0)

\* a - b for magnitudes with a >= b
MagSub(a, b) == MagTrim(MagSubFrom(a, b, 1, 0))

RECURSIVE MagCmpFrom(_, _, _)
MagCmpFrom(a, b, i) ==
    IF i = 0 THEN 0
    ELSE IF a[i] < b[i] THEN -1
    ELSE IF a[i] > b[i] THEN 1
    ELSE MagCmpFrom(a, b, i - 1)

MagCmp(a, b) ==
    IF Len(a) < Len(b) THEN -1
    ELSE IF Len(a) > Len(b) THEN 1
    ELSE MagCmpFrom(a, b, Len(a))

RECURSIVE MagMulSmallFrom(_, _, _, _)
MagMulSmallFrom(a, k, i, carry) ==
    IF i > Len(a) THEN (IF carry = 0 THEN << >> ELSE << carry >>)
    ELSE LET t == a[i] * k + carry
         IN  << t % LimbBase >> \o MagMulSmallFrom(a, k, i + 1, t \div LimbBase)

\* a * k for one limb k
MagMulSmall(a, k) == MagTrim(MagMulSmallFrom(a, k, 1, 0))

RECURSIVE MagMulFrom(_, _, _)
MagMulFrom(a, b, j) ==
    IF j > Len(b) THEN << >>
    ELSE MagAdd(MagMulSmall(a, b[j]), << 0 >> \o MagMulFrom(a, b, j + 1))

MagMul(a, b) == MagTrim(MagMulFrom(a, b, 1))

Zeros(n) == [i \in 1..n |-> 0]

MagShl(a, k) ==
    MagTrim(Zeros(k \div LimbBits) \o MagMulSmall(a, 2 ^ (k % LimbBits)))

MagShr(a, k) ==
    LET q == k \div LimbBits
        r == k % LimbBits
        d == IF q >= Len(a) THEN << >> ELSE SubSeq(a, q + 1, Len(a))
    IN  MagTrim([i \in 1..Len(d) |->
                   (d[i] \div 2 ^ r) + (Limb(d, i + 1) % 2 ^ r) * 2 ^ (LimbBits - r)])

RECURSIVE BitLenNat(_)
BitLenNat(n) == IF n = 0 THEN 0 ELSE 1 + BitLenNat(n \div 2)

MagBitLen(a) ==
    IF a = << >> THEN 0 ELSE LimbBits * (Len(a) - 1) + BitLenNat(a[Len(a)])

RECURSIVE QDigit(_, _, _, _)
\* the largest t in lo..hi with d * t <= cur, by bisection (d * lo <= cur)
QDigit(cur, d, lo, hi) ==
    IF lo = hi THEN lo
    ELSE LET mid == (lo + hi + 1) \div 2
         IN  IF MagCmp(MagMulSmall(d, mid), cur) <= 0
             THEN QDigit(cur, d, mid, hi)
             ELSE QDigit(cur, d, lo, mid - 1)

RECURSIVE MagDivModFrom(_, _, _)
\* long division of the limbs i..Len(n) of n by d, the top limb first
MagDivModFrom(n, d, i) ==
    IF i > Len(n) THEN [q |-> << >>, r |-> << >>]
    ELSE LET h == MagDivModFrom(n, d, i + 1)
             cur == MagTrim(<< n[i] >> \o h.r)
             \* cur < d * LimbBase: the limbs of cur from d's top limb up, and
             \* d's top limb, bracket the quotient digit
             top == Limb(cur, Len(d)) + LimbBase * Limb(cur, Len(d) + 1)
             lo == top \div (d[Len(d)] + 1)
             hi == top \div d[Len(d)]
             t == QDigit(cur, d, lo, IF hi < LimbBase THEN hi ELSE LimbBase - 1)
         IN  [q |-> << t >> \o h.q, r |-> MagSub(cur, MagMulSmall(d, t))]

DivModResult(h) == [q |-> MagTrim(h.q), r |-> h.r]

\* quotient and remainder of magnitudes, d # 0
MagDivMod(n, d) == DivModResult(MagDivModFrom(n, d, 1))

Big(neg, mag) == [neg |-> neg /\ mag # << >>, mag |-> mag]

BigOf(n) == IF n < 0 THEN Big(TRUE, MagOfNat(-n)) ELSE Big(FALSE, MagOfNat(n))

BigNeg(x) == Big(~x.neg, x.mag)

BigAdd(x, y) ==
    IF x.neg = y.neg THEN Big(x.neg, MagAdd(x.mag, y.mag))
    ELSE IF MagCmp(x.mag, y.mag) >= 0 THEN Big(x.neg, MagSub(x.mag, y.mag))
    ELSE Big(y.neg, MagSub(y.mag, x.mag))

BigSub(x, y) == BigAdd(x, BigNeg(y))

BigMul(x, y) == Big(x.neg # y.neg, MagMul(x.mag, y.mag))

\* Python's x << k
BigShl(x, k) == Big(x.neg, MagShl(x.mag, k))

\* Python's x >> k: the floor of x / 2^k, also for a negative x
BigShr(x, k) ==
    LET q == MagShr(x.mag, k)
    IN  IF ~x.neg THEN Big(FALSE, q)
        ELSE IF MagShl(q, k) = x.mag THEN Big(TRUE, q)
        ELSE Big(TRUE, MagAdd(q, << 1 >>))

BigIsZero(x) == x.mag = << >>

RECURSIVE MagToNat(_)
MagToNat(a) == IF a = << >> THEN 0 ELSE a[1] + LimbBase * MagToNat(Tail(a))

\* the value as a model integer, for a value below 2^31 in magnitude
BigToInt(x) == IF x.neg THEN -MagToNat(x.mag) ELSE MagToNat(x.mag)

FitsInt(x) == MagBitLen(x.mag) <= 30

(***************************************************************************)
(* int(n / d) of two Python ints: n / d is the IEEE double nearest to the  *)
(* exact quotient (ties to even, 53 significant bits) and int() truncates  *)
(* it toward zero.  A zero divisor raises ZeroDivisionError.               *)
(***************************************************************************)
DoubleBits == 53

\* the quotient of h == MagDivMod(n, d), rounded half to even
RoundQuotient(h, d) ==
    LET c == MagCmp(MagAdd(h.r, h.r), d)
    IN  IF c > 0 \/ (c = 0 /\ Limb(h.q, 1) % 2 = 1) THEN MagAdd(h.q, << 1 >>)
        ELSE h.q

\* round-half-even of n / d
MagRoundDiv(n, d) == RoundQuotient(MagDivMod(n, d), d)

\* int(n / d) for magnitudes, given the exact integer quotient q
TruncFrom(n, d, q) ==
    LET e == MagBitLen(q) - 1
    IN  IF q = << >>
        THEN \* a quotient below 1 becomes 1.0 only within 2^-54 of it
             IF MagCmp(MagShl(MagSub(d, n), DoubleBits + 1), d) <= 0 /\ n # << >>
             THEN << 1 >> ELSE << >>
        ELSE IF e <= DoubleBits - 1
        THEN MagShr(MagRoundDiv(MagShl(n, DoubleBits - 1 - e), d),
                    DoubleBits - 1 - e)
        ELSE MagShl(MagRoundDiv(n, MagShl(d, e - (DoubleBits - 1))),
                    e - (DoubleBits - 1))

MagTrueDivTrunc(n, d) == TruncFrom(n, d, MagDivMod(n, d).q)

TrueDivInt(n, d) ==
    IF BigIsZero(d) THEN [raised |-> "ZeroDivisionError", val |-> BigOf(0)]
    ELSE [raised |-> "", val |-> Big(n.neg # d.neg, MagTrueDivTrunc(n.mag, d.mag))]


\* round-half-even of a magnitude to DoubleBits significant bits: float(n)
MagToDouble(n) ==
    LET k == MagBitLen(n) - DoubleBits
    IN  IF k <= 0 THEN n ELSE MagShl(MagRoundDiv(n, MagShl(<< 1 >>, k)), k)

(***************************************************************************)
(* Machine-int helpers for the byte arithmetic, which stays below 2^31.    *)
(***************************************************************************)
Shl(a, k) == a * 2 ^ k

\* Python's a >> k (floor)
Shr(a, k) == a \div 2 ^ k

RECURSIVE BitOr(_, _)
\* Python's a | b for a, b >= 0
BitOr(a, b) ==
    IF a = 0 THEN b
    ELSE IF b = 0 THEN a
    ELSE (IF a % 2 = 1 \/ b % 2 = 1 THEN 1 ELSE 0) + 2 * BitOr(a \div 2, b \div 2)

(***************************************************************************)
(* bmp280.py: module constants                                             *)
(***************************************************************************)
BMP280_ULTRALOWPOWER == 0
BMP280_STANDARD == 1
BMP280_HIGHRES == 2
BMP280_ULTRAHIGHRES == 3

BMP280_REGISTER_DIG_T1 == 136
BMP280_REGISTER_DIG_T2 == 138
BMP280_REGISTER_DIG_T3 == 140
BMP280_REGISTER_DIG_P1 == 142
BMP280_REGISTER_DIG_P2 == 144
BMP280_REGISTER_DIG_P3 == 146
BMP280_REGISTER_DIG_P4 == 148
BMP280_REGISTER_DIG_P5 == 150
BMP280_REGISTER_DIG_P6 == 152
BMP280_REGISTER_DIG_P7 == 154
BMP280_REGISTER_DIG_P8 == 156
BMP280_REGISTER_DIG_P9 == 158

BMP280_REGISTER_CONTROL == 244
BMP280_REGISTER_PRESSUREDATA_MSB == 247
BMP280_REGISTER_PRESSUREDATA_LSB == 248
BMP280_REGISTER_PRESSUREDATA_XLSB == 249
BMP280_REGISTER_TEMPDATA_MSB == 250
BMP280_REGISTER_TEMPDATA_LSB == 251
BMP280_REGISTER_TEMPDATA_XLSB == 252

BMP280_READCMD == 63

(***************************************************************************)
(* A Python object or dict is a function from the attribute or key names   *)
(* it holds to their values: an attribute never assigned, or a key never   *)
(* set, is not in its DOMAIN.                                              *)
(***************************************************************************)
Has(d, k) == k \in DOMAIN d

\* d[k] = v, self.k = v
SetItem(d, k, v) == [x \in DOMAIN d \cup {k} |-> IF x = k THEN v ELSE d[x]]

\* an object just allocated, a dict just created
Empty == [x \in {} |-> 0]

\* stands where a call that raised has no value to give
Nothing == "nothing"

(***************************************************************************)
(* The bus collaborator (Adafruit_GPIO.I2C) as one call sees it.  A call   *)
(* context b carries what the device will answer and which bus operation   *)
(* of the call, if any, fails:                                             *)
(*   image   the 16-bit words of the calibration registers                 *)
(*   T, P    the data-register bytes <<msb, lsb, xlsb>> of the successive  *)
(*           temperature and pressure conversions                          *)
(*   failAt  the bus operation (counted from 1) that raises IOError, or 0  *)
(*   n, log  the operations attempted so far and their record              *)
(*   raised  the exception in flight, "" while there is none               *)
(* Once raised is set every later step of the call is skipped, which is    *)
(* how the exception leaves the call.                                      *)
(***************************************************************************)
NewCall(image, T, P, failAt) ==
    [image |-> image, T |-> T, P |-> P, failAt |-> failAt,
     n |-> 0, log |-> << >>, raised |-> ""]

BusOp(b, ev) ==
    IF b.raised # "" THEN b
    ELSE IF b.n + 1 = b.failAt
    THEN [b EXCEPT !.n = @ + 1, !.log = Append(@, [ev EXCEPT !.ok = FALSE]),
                   !.raised = "IOError"]
    ELSE [b EXCEPT !.n = @ + 1, !.log = Append(@, ev)]

Raise(b, exc) == IF b.raised # "" THEN b ELSE [b EXCEPT !.raised = exc]

\* time.sleep(ms / 1000)
sleep(b, ms) ==
    IF b.raised # "" THEN b
    ELSE [b EXCEPT !.log = Append(@, [op |-> "sleep", ms |-> ms, ok |-> TRUE])]

\* i2c.get_i2c_device(address, busnum)
get_i2c_device(b, address) ==
    BusOp(b, [op |-> "open", reg |-> address, val |-> 0, ok |-> TRUE])

\* self._device.write8(reg, val)
write8(b, reg, val) ==
    BusOp(b, [op |-> "write8", reg |-> reg, val |-> val, ok |-> TRUE])

\* the byte the device holds in a data register for the conversion at hand
DataByte(b, reg) ==
    IF reg >= BMP280_REGISTER_TEMPDATA_MSB
    THEN IF b.T = << >> THEN 0 ELSE b.T[1][reg - BMP280_REGISTER_TEMPDATA_MSB + 1]
    ELSE IF b.P = << >> THEN 0 ELSE b.P[1][reg - BMP280_REGISTER_PRESSUREDATA_MSB + 1]

\* self._device.readU8(reg)
readU8(b, reg) ==
    BusOp(b, [op |-> "readU8", reg |-> reg, val |-> DataByte(b, reg), ok |-> TRUE])

\* the value self._device.readU16LE(reg) returns
U16LE(b, reg) == b.image[reg]

\* the value self._device.readS16LE(reg) returns: the word as two's complement
S16LE(b, reg) == IF b.image[reg] >= 2 ^ 15 THEN b.image[reg] - 2 ^ 16 ELSE b.image[reg]

readU16LE(b, reg) ==
    BusOp(b, [op |-> "readU16LE", reg |-> reg, val |-> U16LE(b, reg), ok |-> TRUE])

readS16LE(b, reg) ==
    BusOp(b, [op |-> "readS16LE", reg |-> reg, val |-> S16LE(b, reg), ok |-> TRUE])

(***************************************************************************)
(* bmp280.py: InputModule                                                  *)
(***************************************************************************)
CalFields ==
    << [f |-> "cal_REGISTER_DIG_T1", reg |-> BMP280_REGISTER_DIG_T1, signed |-> FALSE],
       [f |-> "cal_REGISTER_DIG_T2", reg |-> BMP280_REGISTER_DIG_T2, signed |-> TRUE],
       [f |-> "cal_REGISTER_DIG_T3", reg |-> BMP280_REGISTER_DIG_T3, signed |-> TRUE],
       [f |-> "cal_REGISTER_DIG_P1", reg |-> BMP280_REGISTER_DIG_P1, signed |-> FALSE],
       [f |-> "cal_REGISTER_DIG_P2", reg |-> BMP280_REGISTER_DIG_P2, signed |-> TRUE],
       [f |-> "cal_REGISTER_DIG_P3", reg |-> BMP280_REGISTER_DIG_P3, signed |-> TRUE],
       [f |-> "cal_REGISTER_DIG_P4", reg |-> BMP280_REGISTER_DIG_P4, signed |-> TRUE],
       [f |-> "cal_REGISTER_DIG_P5", reg |-> BMP280_REGISTER_DIG_P5, signed |-> TRUE],
       [f |-> "cal_REGISTER_DIG_P6", reg |-> BMP280_REGISTER_DIG_P6, signed |-> TRUE],
       [f |-> "cal_REGISTER_DIG_P7", reg |-> BMP280_REGISTER_DIG_P7, signed |-> TRUE],
       [f |-> "cal_REGISTER_DIG_P8", reg |-> BMP280_REGISTER_DIG_P8, signed |-> TRUE],
       [f |-> "cal_REGISTER_DIG_P9", reg |-> BMP280_REGISTER_DIG_P9, signed |-> TRUE] >>

RECURSIVE LoadFrom(_, _, _)
\* the assignments of _load_calibration from the k-th on, in source order
LoadFrom(st, k, n) ==
    IF k > n THEN st
    ELSE LET c == CalFields[k]
             b1 == IF c.signed THEN readS16LE(st.b, c.reg) ELSE readU16LE(st.b, c.reg)
             v == IF c.signed THEN S16LE(st.b, c.reg) ELSE U16LE(st.b, c.reg)
         IN  IF b1.raised # "" THEN [self |-> st.self, b |-> b1]
             ELSE LoadFrom([self |-> SetItem(st.self, c.f, v), b |-> b1],
                           k + 1, n)

_load_calibration(self, b) == LoadFrom([self |-> self, b |-> b], 1, Len(CalFields))

\* variant of ValidModes: a constructor that accepts whatever mode it is given
AnyMode == Int

\* the list __init__ tests mode against
ValidModes ==
    {BMP280_ULTRALOWPOWER, BMP280_STANDARD, BMP280_HIGHRES, BMP280_ULTRAHIGHRES}

\* InputModule.__init__(input_dev, mode, testing): the object as __init__
\* leaves it and the call context (raised # "" when __init__ raised)
BMP280_init(address, mode, testing, b) ==
    IF testing THEN [self |-> Empty, b |-> b]
    ELSE LET s1 == SetItem(Empty, "i2c_address", address)
         IN  IF mode \notin ValidModes
             THEN [self |-> s1, b |-> Raise(b, "ValueError")]
             ELSE LET s2 == SetItem(s1, "_mode", mode)
                      b3 == get_i2c_device(b, address)
                  IN  IF b3.raised # "" THEN [self |-> s2, b |-> b3]
                      ELSE LET l == _load_calibration(SetItem(s2, "_device", address), b3)
                           IN  IF l.b.raised # "" THEN l
                               ELSE [self |-> SetItem(l.self, "_tfine", 0), b |-> l.b]

\* variant of SettleDelay: the pause of the default mode, whatever the mode
SettleDelayStandard(mode) == 8 + 0 * mode

\* the time.sleep of read_raw_temp / read_raw_pressure, in milliseconds
SettleDelay(mode) ==
    IF mode = BMP280_ULTRALOWPOWER THEN 5
    ELSE IF mode = BMP280_HIGHRES THEN 14
    ELSE IF mode = BMP280_ULTRAHIGHRES THEN 26
    ELSE 8

\* ((msb << 8 | lsb) << 8 | xlsb) >> 4
Combine(msb, lsb, xlsb) == Shr(BitOr(Shl(BitOr(Shl(msb, 8), lsb), 8), xlsb), 4)

\* the body shared by read_raw_temp and read_raw_pressure, on the register
\* block starting at msbReg: the control write, the pause, the three reads
ReadRaw(self, b, msbReg) ==
    [b |-> readU8(readU8(readU8(sleep(write8(b, BMP280_REGISTER_CONTROL,
                                             BMP280_READCMD + Shl(self._mode, 6)),
                                      SettleDelay(self._mode)),
                                msbReg),
                         msbReg + 1),
                  msbReg + 2),
     raw |-> Combine(DataByte(b, msbReg), DataByte(b, msbReg + 1),
                     DataByte(b, msbReg + 2))]

\* a completed raw read has used up the conversion at the head of the queue
Converted(r, queue) ==
    IF r.b.raised # "" \/ r.b[queue] = << >> THEN r
    ELSE [r EXCEPT !.b[queue] = Tail(@)]

read_raw_temp(self, b) ==
    Converted(ReadRaw(self, b, BMP280_REGISTER_TEMPDATA_MSB), "T")

read_raw_pressure(self, b) ==
    Converted(ReadRaw(self, b, BMP280_REGISTER_PRESSUREDATA_MSB), "P")

VARIABLES
    sensor,             \* the InputModule objects of bmp280.py that were constructed
    measurements_dict,  \* the inner dicts of bmp280.measurements_dict
    call,               \* the last call: its arguments, bus record and outcome
    hist,               \* per instance: temperature reads completed so far
    compensated         \* the compensation arithmetic, evaluated once for every
                        \* calibration and raw code the devices can present:
                        \* fine is TMP_FINE, pressure is compensate_pressure

\* TMP_FINE of read_temperature for a raw code adc_T
TMP_FINE(self, adc_T) ==
    LET TMP_PART1 == BigShr(BigMul(BigOf(Shr(adc_T, 3) - Shl(self.cal_REGISTER_DIG_T1, 1)),
                                   BigOf(self.cal_REGISTER_DIG_T2)), 11)
        d == BigOf(Shr(adc_T, 4) - self.cal_REGISTER_DIG_T1)
        TMP_PART2 == BigShr(BigMul(BigShr(BigMul(d, d), 12), BigOf(self.cal_REGISTER_DIG_T3)), 14)
    IN  BigToInt(BigAdd(TMP_PART1, TMP_PART2))

\* ((TMP_FINE * 5 + 128) >> 8) / 100.0, kept as the integer number of
\* hundredths of a degree that the float is the quotient of
Celsius100(fine) == Shr(fine * 5 + 128, 8)

\* the arguments TMP_FINE depends on
FineKey(self, adc_T) ==
    << [k \in 1..3 |-> self[CalFields[k].f]], adc_T >>

\* TMP_FINE(self, adc_T), as tabulated
Fine(self, adc_T) == compensated.fine[FineKey(self, adc_T)]

\* read_temperature from the compensation on: r is what read_raw_temp gave
CompensateTemperature(self, r, fine) ==
    IF r.b.raised # "" THEN [self |-> self, b |-> r.b, val |-> Nothing]
    ELSE [self |-> SetItem(self, "_tfine", fine), b |-> r.b,
          val |-> Celsius100(fine)]

TemperatureOf(self, r) == CompensateTemperature(self, r, Fine(self, r.raw))

read_temperature(self, b) == TemperatureOf(self, read_raw_temp(self, b))

\* var1 of read_pressure as tested by "if var1 == 0"
PressureVar1(self, tfine) ==
    LET v == BigOf(tfine - 128000)
        w == BigAdd(BigShr(BigMul(BigMul(v, v), BigOf(self.cal_REGISTER_DIG_P3)), 8),
                    BigShl(BigMul(v, BigOf(self.cal_REGISTER_DIG_P2)), 12))
    IN  BigShr(BigMul(BigAdd(BigShl(BigOf(1), 47), w), BigOf(self.cal_REGISTER_DIG_P1)), 33)

\* var2 of read_pressure before the division
PressureVar2(self, tfine) ==
    LET v == BigOf(tfine - 128000)
        a == BigMul(BigMul(v, v), BigOf(self.cal_REGISTER_DIG_P6))
        c == BigAdd(a, BigShl(BigMul(v, BigOf(self.cal_REGISTER_DIG_P5)), 17))
    IN  BigAdd(c, BigShl(BigOf(self.cal_REGISTER_DIG_P4), 35))

\* variant of Var1IsZero: no test before the division
Var1Unchecked(var1) == FALSE

\* if var1 == 0
Var1IsZero(var1) == BigIsZero(var1)

\* return p / 256.0, p kept as the int that the float is the quotient of (the
\* pressure in 1/256 Pa), rounded as float(p) rounds it
Pascals(p) ==
    [raised |-> "", val |-> Big(p.neg, MagToDouble(p.mag)), divided |-> TRUE]

\* the lines of read_pressure after the division, p its result:
\*   var1 = (P9 * (p >> 13) * (p >> 13)) >> 25;  var2 = (P8 * p) >> 19
\*   p = ((p + var1 + var2) >> 8) + (P7 << 4)
AfterDivision(self, p) ==
    Pascals(BigAdd(BigShr(BigAdd(BigAdd(p,
                                        BigShr(BigMul(BigMul(BigOf(self.cal_REGISTER_DIG_P9),
                                                             BigShr(p, 13)),
                                                      BigShr(p, 13)), 25)),
                                 BigShr(BigMul(BigOf(self.cal_REGISTER_DIG_P8), p), 19)),
                          8),
                   BigShl(BigOf(self.cal_REGISTER_DIG_P7), 4)))

\* q is what int((((p << 31) - var2) * 3125) / var1) gave or raised
Divided(self, q) ==
    IF q.raised # "" THEN [raised |-> q.raised, val |-> Nothing, divided |-> TRUE]
    ELSE AfterDivision(self, q.val)

\* if var1 == 0: return 0;  p = 1048576 - adc_P;  the division
FromFactors(self, var1, var2, adc_P) ==
    IF Var1IsZero(var1)
    THEN [raised |-> "", val |-> BigOf(0), divided |-> FALSE]
    ELSE Divided(self, TrueDivInt(BigMul(BigSub(BigShl(BigOf(1048576 - adc_P), 31),
                                                var2),
                                         BigOf(3125)),
                                  var1))

\* the arithmetic of read_pressure after the raw read: the value returned,
\* the exception raised if any, and whether the division by var1 was made
compensate_pressure(self, tfine, adc_P) ==
    FromFactors(self, PressureVar1(self, tfine), PressureVar2(self, tfine), adc_P)

\* the arguments compensate_pressure depends on
CompensationKey(self, tfine, adc_P) ==
    << [k \in 4..Len(CalFields) |-> self[CalFields[k].f]], tfine, adc_P >>

\* the outcome of the arithmetic of read_pressure, as tabulated
Compensation(self, tfine, adc_P) ==
    compensated.pressure[CompensationKey(self, tfine, adc_P)]

\* variant of TFineUnset: a temperature read before every pressure read
TFineNeverCached(self) == TRUE

\* if self._tfine == 0
TFineUnset(self) == self._tfine = 0

\* read_pressure from the compensation on: r is what read_raw_pressure gave,
\* c the outcome of the arithmetic
CompensatePressure(self, r, c) ==
    IF r.b.raised # ""
    THEN [self |-> self, b |-> r.b, val |-> Nothing, divided |-> FALSE]
    ELSE [self |-> self, b |-> Raise(r.b, c.raised), val |-> c.val,
          divided |-> c.divided]

PressureOf(self, r) ==
    CompensatePressure(self, r, Compensation(self, self._tfine, r.raw))

\* read_pressure after its temperature read, if it made one: t is what that
\* read left (an exception it raised skips the rest)
PressureAfter(t) == PressureOf(t.self, read_raw_pressure(t.self, t.b))

read_pressure(self, b) ==
    PressureAfter(IF TFineUnset(self) THEN read_temperature(self, b)
                  ELSE [self |-> self, b |-> b, val |-> Nothing])


\* self.is_enabled(channel) of AbstractInput: whether the channel is enabled
\* in the device's measurement settings, here the set the call runs under
is_enabled(enabled, channel) == channel \in enabled

\* calculate_altitude(pressure) of mycodo.inputs.sensorutils: a float formula
\* (a fractional power), kept as the term it is applied to
calculate_altitude(pressure) == [altitude_of |-> pressure]

\* measurements_dict of bmp280.py as the module is imported: no 'value' key
BMP280_measurements_dict ==
    [ch \in 0..2 |->
        [measurement |-> IF ch = 0 THEN "pressure"
                         ELSE IF ch = 1 THEN "temperature" ELSE "altitude",
         unit |-> IF ch = 0 THEN "Pa" ELSE IF ch = 1 THEN "C" ELSE "m"]]

\* return_dict[ch]['value'] = r.val, unless the read r raised.
\* measurements_dict.copy() is a new outer dict over the SAME inner dicts, so
\* the assignment is an assignment to the module's inner dict: st.dict is the
\* state of those inner dicts.
Store(st, ch, r) ==
    [self |-> r.self, b |-> r.b,
     dict |-> IF r.b.raised # "" THEN st.dict
              ELSE [st.dict EXCEPT ![ch] = SetItem(@, "value", r.val)]]

\* if self.is_enabled(0): return_dict[0]['value'] = self.read_pressure()
Channel0(enabled, st) ==
    IF is_enabled(enabled, 0) /\ st.b.raised = ""
    THEN Store(st, 0, read_pressure(st.self, st.b))
    ELSE st

\* if self.is_enabled(1): return_dict[1]['value'] = self.read_temperature()
Channel1(enabled, st) ==
    IF is_enabled(enabled, 1) /\ st.b.raised = ""
    THEN Store(st, 1, read_temperature(st.self, st.b))
    ELSE st

\* if self.is_enabled(2) and self.is_enabled(0):
\*     return_dict[2]['value'] = calculate_altitude(return_dict[0]['value'])
Channel2(enabled, st) ==
    IF is_enabled(enabled, 2) /\ is_enabled(enabled, 0) /\ st.b.raised = ""
    THEN Store(st, 2, [self |-> st.self, b |-> st.b,
                       val |-> calculate_altitude(st.dict[0].value)])
    ELSE st

\* return return_dict
Return(st) == [self |-> st.self, b |-> st.b, dict |-> st.dict, ret |-> st.dict]

get_measurement(self, dict, enabled, b) ==
    Return(Channel2(enabled,
                    Channel1(enabled,
                             Channel0(enabled, [self |-> self, b |-> b,
                                                dict |-> dict]))))

(***************************************************************************)
(* The devices and the inputs of the calls.                                *)
(***************************************************************************)
CalRegisters == { CalFields[k].reg : k \in 1..Len(CalFields) }

\* the calibration words of the datasheet's example (_load_datasheet_calibration)
DatasheetImage ==
    [r \in CalRegisters |->
        CASE r = BMP280_REGISTER_DIG_T1 -> 27504
          [] r = BMP280_REGISTER_DIG_T2 -> 26435
          [] r = BMP280_REGISTER_DIG_T3 -> 2 ^ 16 - 1000
          [] r = BMP280_REGISTER_DIG_P1 -> 36477
          [] r = BMP280_REGISTER_DIG_P2 -> 2 ^ 16 - 10685
          [] r = BMP280_REGISTER_DIG_P3 -> 3024
          [] r = BMP280_REGISTER_DIG_P4 -> 2855
          [] r = BMP280_REGISTER_DIG_P5 -> 140
          [] r = BMP280_REGISTER_DIG_P6 -> 2 ^ 16 - 7
          [] r = BMP280_REGISTER_DIG_P7 -> 15500
          [] r = BMP280_REGISTER_DIG_P8 -> 2 ^ 16 - 14600
          [] OTHER -> 6000]

\* a device (or test double) that answers 0 for every calibration register
BlankImage == [r \in CalRegisters |-> 0]

Images == {DatasheetImage, BlankImage}

\* data-register bytes <<msb, lsb, xlsb>>: the datasheet's raw temperature
\* 519888, and raw 440064, for which the datasheet calibration gives TMP_FINE 0
TempSamples == { << 126, 237, 0 >>, << 107, 112, 15 >> }

\* how many distinct raw pressures the device presents
NumPressureSamples == 1

\* the datasheet's raw pressure 415148 first, then codes down from the largest
PressureSample(k) == IF k = 1 THEN << 101, 90, 192 >> ELSE << 257 - k, 255, 255 >>

PressureSamples == { PressureSample(k) : k \in 1..NumPressureSamples }

\* the modes a caller may pass, two of them outside the enumeration
Modes == -1..4

\* the InputModule objects the daemon creates from the input's settings
Inst == {"a"}

\* int(str(input_dev.i2c_location), 16): the device answers at 0x76 or 0x77
Address(i) == IF i = "a" THEN 118 ELSE 119

\* bus operations of __init__: get_i2c_device and the 12 calibration reads
InitBusOps == 1 + Len(CalFields)

\* bus operations of a raw read: write8 and three readU8
RawBusOps == 4

(***************************************************************************)
(* ds1822.py: the one-wire thermometer.  Temperatures are floats that the  *)
(* device reports in steps of 0.0625 C; they are kept as integer numbers   *)
(* of sixteenths of a degree.                                              *)
(***************************************************************************)
Sixteenths == 16

Degrees(c) == c * Sixteenths

\* ds1822.measurements_dict as the module defines it
DS1822_measurements_dict ==
    (0 :> [k \in {"measurement", "unit"} |->
              IF k = "measurement" THEN "temperature" ELSE "C"])

\* InputModule.__init__ of ds1822.py; found says whether the one-wire bus
\* has the sensor.  The result is the object and the device calls made.
DS1822_init(location, resolution, testing, found) ==
    IF testing THEN [self |-> Empty, raised |-> "", log |-> << >>]
    ELSE LET s1 == SetItem(SetItem(Empty, "location", location),
                           "resolution", resolution)
             open == [op |-> "W1ThermSensor", val |-> location, ok |-> found]
         IN  IF ~found
             THEN [self |-> s1, raised |-> "NoSensorFoundError", log |-> << open >>]
             ELSE [self |-> SetItem(s1, "sensor", location), raised |-> "",
                   log |-> IF resolution # 0
                           THEN << open, [op |-> "set_precision", val |-> resolution,
                                          ok |-> TRUE] >>
                           ELSE << open >>]

\* variant of DS1822_n: a single attempt
DS1822_once == 2 - 1

\* n = 2
DS1822_n == 2

\* the body of `for i in range(n)` from iteration i on.  st carries the local
\* temperature (<< >> is None), the outcomes the device will give to the
\* coming reads, and the record of reads, pauses and log entries.
RECURSIVE DS1822_loop(_, _, _)
DS1822_loop(self, st, i) ==
    IF i >= DS1822_n THEN st
    ELSE LET hasSensor == Has(self, "sensor")
             out == IF hasSensor THEN Head(st.script)
                    ELSE [ok |-> FALSE, val |-> 0]
             rd == IF hasSensor
                   THEN Append(st.log, [op |-> "get_temperature", val |-> out.val,
                                        ok |-> out.ok])
                   ELSE st.log
             rest == IF hasSensor THEN Tail(st.script) ELSE st.script
         IN  IF out.ok
             THEN [st EXCEPT !.temperature = << out.val >>, !.log = rd,
                             !.script = rest]
             ELSE LET lg == IF i = DS1822_n
                            THEN Append(rd, [op |-> "logger.exception", val |-> i,
                                             ok |-> TRUE])
                            ELSE rd
                  IN  DS1822_loop(self,
                                  [st EXCEPT !.log = Append(lg, [op |-> "sleep", val |-> 1,
                                                                 ok |-> TRUE]),
                                             !.script = rest],
                                  i + 1)

\* variant of FaultSignature: no reading is taken for the fault signature
NoFaultSignature(temperature) == FALSE

\* if temperature == 85
FaultSignature(temperature) ==
    temperature # << >> /\ temperature[1] = Degrees(85)

\* elif temperature is not None and -55 > temperature > 125
OutOfRange(temperature) ==
    /\ temperature # << >>
    /\ Degrees(-55) > temperature[1]
    /\ temperature[1] > Degrees(125)

\* InputModule.get_measurement of ds1822.py.  ret is << >> for None and <<d>>
\* for the returned dict d; dict is the module's measurements_dict, whose
\* inner dicts the shallow copy shares.
DS1822_get_measurement(self, dict, script) ==
    LET st == DS1822_loop(self, [temperature |-> << >>, script |-> script,
                                 log |-> << >>], 0)
        temperature == st.temperature
    IN  IF FaultSignature(temperature)
        THEN [dict |-> dict, ret |-> << >>,
              log |-> Append(st.log, [op |-> "logger.error", val |-> 85, ok |-> TRUE])]
        ELSE IF OutOfRange(temperature)
        THEN [dict |-> dict, ret |-> << >>,
              log |-> Append(st.log, [op |-> "logger.error", val |-> temperature[1],
                                      ok |-> TRUE])]
        ELSE LET d == [dict EXCEPT ![0] = SetItem(@, "value", temperature)]
             IN  [dict |-> d, ret |-> << d >>, log |-> st.log]

\* readings the device may give: the edges of the checks and some room
\* temperatures
NumRoomReadings == 2

Readings ==
    { Degrees(-56), Degrees(-55), Degrees(-55) + 1,
      Degrees(85) - 1, Degrees(85), Degrees(85) + 1,
      Degrees(125) - 1, Degrees(125), Degrees(126) }
    \cup { Degrees(20) + 8 * k : k \in 1..NumRoomReadings }

ReadOutcomes ==
    { [ok |-> FALSE, val |-> 0] } \cup { [ok |-> TRUE, val |-> v] : v \in Readings }

\* '' (chip default) is 0
Resolutions == {0, 9, 12}

VARIABLES
    thermometer,              \* the InputModule object of ds1822.py, once constructed
    ds1822_measurements_dict, \* the inner dicts of ds1822.measurements_dict
    ds1822_call               \* the last thermometer call and its outcome

bmpVars == << sensor, measurements_dict, call, hist, compensated >>

dsVars == << thermometer, ds1822_measurements_dict, ds1822_call >>

vars == << bmpVars, dsVars >>

\* an instance whose constructor bound it to a device
Usable(i) == Has(sensor, i) /\ Has(sensor[i], "_device")

RawCode(t) == Shr(Shl(t[1], 16) + Shl(t[2], 8) + t[3], 4)

\* completed temperature conversions in a bus record, oldest first: the raw
\* codes whose three data bytes were all read
RECURSIVE TempRaws(_)
TempRaws(log) ==
    IF Len(log) < 3 THEN << >>
    ELSE IF /\ log[1].op = "readU8" /\ log[1].reg = BMP280_REGISTER_TEMPDATA_MSB
            /\ log[3].op = "readU8" /\ log[3].reg = BMP280_REGISTER_TEMPDATA_XLSB
            /\ log[3].ok
         THEN << RawCode(<< log[1].val, log[2].val, log[3].val >>) >>
              \o TempRaws(SubSeq(log, 4, Len(log)))
         ELSE TempRaws(Tail(log))

\* lastFine: << >>, or <<f>> for the TMP_FINE f of the latest completed read
HistAfter(h, self, log) ==
    LET raws == TempRaws(log)
    IN  IF raws = << >> THEN h
        ELSE [tempDone |-> TRUE, lastFine |-> << Fine(self, raws[Len(raws)]) >>]

\* the record of a call: ret is there only when the call returned
Outcome(c, b, ret) ==
    LET d == [c EXCEPT !.raised = b.raised, !.log = b.log]
    IN  IF b.raised = "" THEN SetItem(d, "ret", ret) ELSE d

\* the object a successful __init__ leaves on a device with the given image
Calibrated(image) ==
    BMP280_init(Address("a"), BMP280_STANDARD, FALSE,
                NewCall(image, << >>, << >>, 0)).self

\* TMP_FINE for every calibration and raw temperature the devices present
FineTable ==
    LET args == { << Calibrated(image), RawCode(t) >> :
                    image \in Images, t \in TempSamples }
    IN  [k \in { FineKey(x[1], x[2]) : x \in args } |->
            LET x == CHOOSE y \in args : FineKey(y[1], y[2]) = k
            IN  TMP_FINE(x[1], x[2])]

\* compensate_pressure for every calibration, every FineTemperature the
\* instance can hold (0 and the tabulated ones) and every raw pressure
CompensationTable(fine) ==
    LET args == UNION { { << Calibrated(image), f, RawCode(p) >> :
                            f \in {0} \cup { fine[FineKey(Calibrated(image), RawCode(t))] :
                                               t \in TempSamples },
                            p \in PressureSamples } : image \in Images }
    IN  [k \in { CompensationKey(x[1], x[2], x[3]) : x \in args } |->
            LET x == CHOOSE y \in args : CompensationKey(y[1], y[2], y[3]) = k
            IN  compensate_pressure(x[1], x[2], x[3])]

Init ==
    /\ sensor = Empty
    /\ measurements_dict = BMP280_measurements_dict
    /\ call = [op |-> "import", raised |-> "", log |-> << >>]
    /\ hist = [i \in Inst |-> [tempDone |-> FALSE, lastFine |-> << >>]]
    /\ \E fine \in { FineTable } :
          compensated = [fine |-> fine, pressure |-> CompensationTable(fine)]
    /\ thermometer = << >>
    /\ ds1822_measurements_dict = DS1822_measurements_dict
    /\ ds1822_call = [op |-> "import", raised |-> "", log |-> << >>]

Construct(i, modes, fails) ==
    /\ ~Has(sensor, i)
    /\ \E mode \in modes, testing \in BOOLEAN, image \in Images, failAt \in fails :
          \E r \in { BMP280_init(Address(i), mode, testing,
                               NewCall(image, << >>, << >>, failAt)) } :
              /\ sensor' = IF r.b.raised = "" THEN SetItem(sensor, i, r.self)
                           ELSE sensor
              /\ call' = [op |-> "__init__", inst |-> i, mode |-> mode,
                          testing |-> testing, raised |-> r.b.raised,
                          log |-> r.b.log, self |-> r.self]
    /\ UNCHANGED << measurements_dict, hist, compensated, dsVars >>

ReadRawTemp(i) ==
    /\ Usable(i)
    /\ \E t \in TempSamples, failAt \in 0..RawBusOps :
          \E r \in { read_raw_temp(sensor[i], NewCall(BlankImage, << t >>, << >>, failAt)) } :
              call' = Outcome([op |-> "read_raw_temp", inst |-> i,
                               mode |-> sensor[i]._mode, raised |-> "",
                               log |-> << >>], r.b, r.raw)
    /\ UNCHANGED << sensor, measurements_dict, hist, compensated, dsVars >>

ReadRawPressure(i) ==
    /\ Usable(i)
    /\ \E p \in PressureSamples, failAt \in 0..RawBusOps :
          \E r \in { read_raw_pressure(sensor[i], NewCall(BlankImage, << >>, << p >>, failAt)) } :
              call' = Outcome([op |-> "read_raw_pressure", inst |-> i,
                               mode |-> sensor[i]._mode, raised |-> "",
                               log |-> << >>], r.b, r.raw)
    /\ UNCHANGED << sensor, measurements_dict, hist, compensated, dsVars >>

ReadTemperature(i, fails) ==
    /\ Usable(i)
    /\ \E t \in TempSamples, failAt \in fails :
          \E r \in { read_temperature(sensor[i], NewCall(BlankImage, << t >>, << >>, failAt)) } :
              /\ sensor' = [sensor EXCEPT ![i] = r.self]
              /\ call' = Outcome([op |-> "read_temperature", inst |-> i,
                                  raised |-> "", log |-> << >>,
                                  tfine0 |-> sensor[i]._tfine, hist0 |-> hist[i]],
                                 r.b, r.val)
              /\ hist' = [hist EXCEPT ![i] = HistAfter(@, sensor[i], r.b.log)]
    /\ UNCHANGED << measurements_dict, compensated, dsVars >>

ReadPressure(i, fails) ==
    /\ Usable(i)
    /\ \E t \in TempSamples, p \in PressureSamples, failAt \in fails :
          \E r \in { read_pressure(sensor[i], NewCall(BlankImage, << t >>, << p >>, failAt)) } :
              /\ sensor' = [sensor EXCEPT ![i] = r.self]
              /\ call' = Outcome([op |-> "read_pressure", inst |-> i,
                                  raised |-> "", log |-> << >>,
                                  divided |-> r.divided,
                                  tfine0 |-> sensor[i]._tfine, hist0 |-> hist[i]],
                                 r.b, r.val)
              /\ hist' = [hist EXCEPT ![i] = HistAfter(@, sensor[i], r.b.log)]
    /\ UNCHANGED << measurements_dict, compensated, dsVars >>

GetMeasurement(i, fails) ==
    /\ Usable(i)
    /\ \E enabled \in SUBSET (0..2), t1 \in TempSamples, t2 \in TempSamples,
          p \in PressureSamples, failAt \in fails :
          \E r \in { get_measurement(sensor[i], measurements_dict, enabled,
                                   NewCall(BlankImage, << t1, t2 >>, << p >>, failAt)) } :
              /\ sensor' = [sensor EXCEPT ![i] = r.self]
              /\ measurements_dict' = r.dict
              /\ call' = Outcome([op |-> "get_measurement", inst |-> i,
                                  enabled |-> enabled, raised |-> "", log |-> << >>,
                                  tfine0 |-> sensor[i]._tfine, hist0 |-> hist[i]],
                                 r.b, r.ret)
              /\ hist' = [hist EXCEPT ![i] = HistAfter(@, sensor[i], r.b.log)]
    /\ UNCHANGED << compensated, dsVars >>

\* thermometer is << >> until constructed, then <<self>>
DS1822_Construct ==
    /\ thermometer = << >>
    /\ \E resolution \in Resolutions, testing \in BOOLEAN, found \in BOOLEAN :
          \E r \in { DS1822_init("28-000000000001", resolution, testing, found) } :
              /\ thermometer' = IF r.raised = "" THEN << r.self >> ELSE << >>
              /\ ds1822_call' = [op |-> "__init__", testing |-> testing,
                                 raised |-> r.raised, log |-> r.log]
    /\ UNCHANGED << ds1822_measurements_dict, bmpVars >>

DS1822_GetMeasurement ==
    /\ thermometer # << >>
    /\ \E o1 \in ReadOutcomes, o2 \in ReadOutcomes :
          \E r \in { DS1822_get_measurement(thermometer[1], ds1822_measurements_dict,
                                            << o1, o2 >>) } :
              /\ ds1822_measurements_dict' = r.dict
              /\ ds1822_call' = [op |-> "get_measurement", script |-> << o1, o2 >>,
                                 raised |-> "", log |-> r.log, ret |-> r.ret]
    /\ UNCHANGED << thermometer, bmpVars >>

(***************************************************************************)
(* The bus protocol: construction under every mode and bus failure, and    *)
(* the raw reads.                                                          *)
(***************************************************************************)
NextBus ==
    \/ Construct("a", Modes, 0..InitBusOps)
    \/ ReadRawTemp("a")
    \/ ReadRawPressure("a")

SpecBus == Init /\ [][NextBus]_vars

(***************************************************************************)
(* The driver as the daemon uses it: instances constructed with the        *)
(* default mode, then read.                                                *)
(***************************************************************************)
\* a bus failure strikes the control write of the k-th raw read of a call
RawFails(k) == {0} \cup { RawBusOps * j + 1 : j \in 0..(k - 1) }

Next ==
    \E i \in Inst :
        \/ Construct(i, {BMP280_STANDARD}, {0})
        \/ ReadTemperature(i, RawFails(1))
        \/ ReadPressure(i, RawFails(2))
        \/ GetMeasurement(i, RawFails(1))

Spec == Init /\ [][Next]_vars

(***************************************************************************)
(* The thermometer.                                                        *)
(***************************************************************************)
NextDS ==
    \/ DS1822_Construct
    \/ DS1822_GetMeasurement

SpecDS == Init /\ [][NextDS]_vars

(***************************************************************************)
(* Properties of the thermometer, over SpecDS.                             *)
(***************************************************************************)
\* a get_measurement call on a thermometer bound to a device has returned
DSMeasured ==
    /\ ds1822_call.op = "get_measurement"
    /\ thermometer # << >>
    /\ Has(thermometer[1], "sensor")

\* the device reads the call made, in order
DSReads == SelectSeq(ds1822_call.log, LAMBDA e : e.op = "get_temperature")

DSLogged(kind) == \E k \in 1..Len(ds1822_call.log) : ds1822_call.log[k].op = kind

\* the call returned a record (not None)
DSRecord == ds1822_call.ret # << >>

\* the 'value' of the returned record: << >> is None
DSValue == ds1822_call.ret[1][0].value

\* a record with exactly one channel, the temperature in C, and a value slot
OneChannel(d) ==
    /\ DOMAIN d = {0}
    /\ DOMAIN d[0] = {"measurement", "unit", "value"}
    /\ d[0].measurement = "temperature"
    /\ d[0].unit = "C"

\* C1 as stated: at most 2 device reads and no exception; if the first read
\* fails and the second succeeds the returned record's value is the second
\* read's value; if the first read succeeds there is no second read; if both
\* fail the call returns a record whose value is absent.
C1_AsStated ==
    ds1822_call.op = "get_measurement" =>
        /\ Len(DSReads) <= 2
        /\ ds1822_call.raised = ""
        /\ DSMeasured =>
              LET o1 == ds1822_call.script[1]
                  o2 == ds1822_call.script[2]
              IN  /\ (~o1.ok /\ o2.ok) =>
                        (Len(DSReads) = 2 /\ DSRecord /\ DSValue = << o2.val >>)
                  /\ o1.ok => Len(DSReads) = 1
                  /\ (~o1.ok /\ ~o2.ok) =>
                        (Len(DSReads) = 2 /\ DSRecord /\ DSValue = << >>)

\* C1, amended: at most 2 device reads and no exception; if the first read
\* fails and the second succeeds with a value other than 85.0 the returned
\* record's value is the second read's value, and when that value is exactly
\* 85.0 no record is returned; if the first read succeeds there is no second
\* read; if both fail the call returns a record whose value is absent.
C1_Retry ==
    ds1822_call.op = "get_measurement" =>
        /\ Len(DSReads) <= 2
        /\ ds1822_call.raised = ""
        /\ DSMeasured =>
              LET o1 == ds1822_call.script[1]
                  o2 == ds1822_call.script[2]
              IN  /\ (~o1.ok /\ o2.ok /\ o2.val # 85 * 16) =>
                        (Len(DSReads) = 2 /\ DSRecord /\ DSValue = << o2.val >>)
                  /\ (~o1.ok /\ o2.ok /\ o2.val = 85 * 16) =>
                        (Len(DSReads) = 2 /\ ~DSRecord)
                  /\ o1.ok => Len(DSReads) = 1
                  /\ (~o1.ok /\ ~o2.ok) =>
                        (Len(DSReads) = 2 /\ DSRecord /\ DSValue = << >>)

\* a call whose first read failed and whose second read gave the value it returned
C1_Witness ==
    /\ DSMeasured
    /\ Len(DSReads) = 2
    /\ ~DSReads[1].ok
    /\ DSReads[2].ok
    /\ DSRecord
    /\ DSValue = << DSReads[2].val >>

\* C2 as stated: a read of exactly 85.0 (first or second attempt) is the last
\* read of the call, and the call returns a one-channel record whose value is
\* absent; every return of get_measurement is a one-channel record.
C2_AsStated ==
    ds1822_call.op = "get_measurement" =>
        /\ DSRecord
        /\ OneChannel(ds1822_call.ret[1])
        /\ \A k \in 1..Len(DSReads) :
              (DSReads[k].ok /\ DSReads[k].val = 85 * 16) =>
                  (k = Len(DSReads) /\ DSValue = << >>)

\* C2, amended: a read of exactly 85.0 (first or second attempt) is the last
\* read of the call, an error is logged and the call returns None, no record
\* at all; every record the call does return has exactly one channel
\* (temperature), and its value is absent exactly when no read succeeded.
C2_Sentinel ==
    ds1822_call.op = "get_measurement" =>
        /\ \A k \in 1..Len(DSReads) :
              (DSReads[k].ok /\ DSReads[k].val = 85 * 16) =>
                  (k = Len(DSReads) /\ ~DSRecord /\ DSLogged("logger.error"))
        /\ DSRecord =>
              /\ OneChannel(ds1822_call.ret[1])
              /\ DSValue = << >> <=> (\A k \in 1..Len(DSReads) : ~DSReads[k].ok)

\* a call whose second attempt read exactly 85.0
C2_Witness ==
    /\ DSMeasured
    /\ Len(DSReads) = 2
    /\ DSReads[2].ok
    /\ DSReads[2].val = 85 * 16
    /\ ~DSRecord

\* C5 as stated: a successful read other than 85.0 that is <= -55 or >= 125
\* is logged as out of range and the value is absent; a read inside (-55, 125)
\* is the record's value.
C5_AsStated ==
    (DSMeasured /\ DSReads # << >> /\ DSReads[Len(DSReads)].ok
                /\ DSReads[Len(DSReads)].val # 85 * 16) =>
        LET v == DSReads[Len(DSReads)].val
        IN  IF v <= -55 * 16 \/ v >= 125 * 16
            THEN DSLogged("logger.error") /\ (DSRecord => DSValue = << >>)
            ELSE DSRecord /\ DSValue = << v >>

\* C9 as stated: when both attempts raise, the last error is logged before
\* the call returns with the value absent; when an attempt succeeds no read
\* error is logged.
C9_AsStated ==
    (DSMeasured /\ DSReads # << >>) =>
        IF \A k \in 1..Len(DSReads) : ~DSReads[k].ok
        THEN DSLogged("logger.exception") /\ DSRecord /\ DSValue = << >>
        ELSE ~DSLogged("logger.exception")

(***************************************************************************)
(* Properties of the pressure/temperature sensor's bus protocol, over      *)
(* SpecBus.                                                                *)
(***************************************************************************)
\* __init__ opened the bus handle, read the 12 calibration words in
\* register order (0x88, 0x8A, ..., 0x9E) and left _tfine at 0
InitComplete ==
    /\ Len(call.log) = 13
    /\ call.log[1].op = "open"
    /\ \A k \in 1..12 :
          /\ call.log[k + 1].op \in {"readU16LE", "readS16LE"}
          /\ call.log[k + 1].reg = 136 + 2 * (k - 1)
          /\ call.log[k + 1].ok
    /\ Has(call.self, "_device")
    /\ Has(call.self, "_tfine")
    /\ call.self._tfine = 0

\* C4 as stated: a mode outside {0,1,2,3} always fails with a configuration
\* error, before the bus handle is opened and before any calibration
\* register is read; construction with a valid mode opens the handle, makes
\* the 12 calibration reads and leaves FineTemperature at 0.
C4_AsStated ==
    call.op = "__init__" =>
        /\ call.mode \notin 0..3 =>
              (call.raised = "ValueError" /\ call.log = << >>)
        /\ (call.mode \in 0..3 /\ call.raised = "") => InitComplete

\* C4, amended: unless the constructor is called with testing set, a mode
\* outside {0,1,2,3} fails with a configuration error before the bus handle
\* is opened and before any calibration register is read, and no instance is
\* retained; a construction with a valid mode that completes has opened the
\* handle, made the 12 calibration reads and left FineTemperature at 0.
\* With testing set the constructor checks nothing and touches nothing: it
\* succeeds for every mode, without a bus handle, calibration or
\* FineTemperature.
C4_Construct ==
    call.op = "__init__" =>
        /\ (~call.testing /\ call.mode \notin 0..3) =>
              /\ call.raised = "ValueError"
              /\ call.log = << >>
              /\ ~Has(call.self, "_device")
              /\ ~Has(sensor, call.inst)
        /\ (~call.testing /\ call.mode \in 0..3 /\ call.raised = "") => InitComplete
        /\ call.testing =>
              /\ call.raised = ""
              /\ call.log = << >>
              /\ call.self = Empty

\* a construction, not under testing, that a mode outside the enumeration made fail
C4_Witness ==
    /\ call.op = "__init__"
    /\ ~call.testing
    /\ call.mode \notin 0..3
    /\ call.raised = "ValueError"

\* the k-th event of a raw read on the block at msbReg, in the given mode:
\* control register 0xF4 written with 0x3F | (mode << 6), the pause of the
\* delay table, then the reads of MSB, LSB and XLSB
IsRawStep(ev, k, mode, msbReg) ==
    IF k = 1
    THEN /\ ev.op = "write8"
         /\ ev.reg = 244
         /\ ev.val = BitOr(63, mode * 64)
         /\ ev.val \in 0..255
    ELSE IF k = 2
    THEN /\ ev.op = "sleep"
         /\ ev.ms = CASE mode = 0 -> 5 [] mode = 1 -> 8 [] mode = 2 -> 14 [] mode = 3 -> 26
    ELSE /\ ev.op = "readU8"
         /\ ev.reg = msbReg + (k - 3)

\* C6: in each of the four modes a raw read is exactly: one write of
\* 0x3F | (mode << 6), which fits in 8 bits, to the control register; one
\* pause of 5, 8, 14 or 26 ms for mode 0, 1, 2, 3; single-byte reads of MSB,
\* LSB, XLSB of the matching block, in that order.  The result is
\* ((MSB << 8 | LSB) << 8 | XLSB) >> 4, in 0..2^20-1.  No operation is
\* repeated, and the first bus operation that fails ends the sequence and
\* its error leaves the call.
C6_RawRead ==
    call.op \in {"read_raw_temp", "read_raw_pressure"} =>
        LET msbReg == IF call.op = "read_raw_temp" THEN 250 ELSE 247
            n == Len(call.log)
        IN  /\ call.mode \in 0..3
            /\ n \in 1..5
            /\ \A k \in 1..n : IsRawStep(call.log[k], k, call.mode, msbReg)
            /\ \A k \in 1..(n - 1) : call.log[k].ok
            /\ IF call.raised = ""
               THEN /\ n = 5
                    /\ call.log[5].ok
                    /\ Has(call, "ret")
                    /\ call.ret = Shr(BitOr(Shl(BitOr(Shl(call.log[3].val, 8),
                                                      call.log[4].val), 8),
                                            call.log[5].val), 4)
                    /\ call.ret \in 0..(2 ^ 20 - 1)
               ELSE /\ call.raised = "IOError"
                    /\ ~call.log[n].ok
                    /\ ~Has(call, "ret")

\* a completed raw pressure read in the slowest mode, of the datasheet's code
C6_Witness ==
    /\ call.op = "read_raw_pressure"
    /\ call.mode = 3
    /\ Has(call, "ret")
    /\ call.ret = 415148

(***************************************************************************)
(* Properties of the pressure/temperature sensor's conversions, over Spec. *)
(***************************************************************************)
\* C3 as stated: a returned record has a value only in the channels enabled
\* at that call: pressure only if channel 0 is enabled, temperature only if
\* channel 1 is, altitude only if channels 2 and 0 both are.
C3_AsStated ==
    (call.op = "get_measurement" /\ Has(call, "ret")) =>
        /\ Has(call.ret[0], "value") => 0 \in call.enabled
        /\ Has(call.ret[1], "value") => 1 \in call.enabled
        /\ Has(call.ret[2], "value") => {0, 2} \subseteq call.enabled

\* the raw pressure read of the last call delivered its three bytes
PressureRead ==
    \E k \in 1..Len(call.log) :
        /\ call.log[k].op = "readU8"
        /\ call.log[k].reg = 249
        /\ call.log[k].ok

\* var1 = (((1 << 47) + ((v*v*P3) >> 8) + ((v*P2) << 12)) * P1) >> 33 with
\* v = FineTemperature - 128000
Var1Factor(self) ==
    LET v == BigOf(self._tfine - 128000)
        P1 == BigOf(self.cal_REGISTER_DIG_P1)
        P2 == BigOf(self.cal_REGISTER_DIG_P2)
        P3 == BigOf(self.cal_REGISTER_DIG_P3)
    IN  BigShr(BigMul(BigAdd(BigAdd(BigShl(BigOf(1), 47),
                                    BigShr(BigMul(BigMul(v, v), P3), 8)),
                             BigShl(BigMul(v, P2), 12)),
                      P1), 33)

\* C7: whenever var1 is 0 for the FineTemperature and calibration at hand,
\* read_pressure returns 0 and raises nothing, without dividing, whatever the
\* raw pressure; when var1 is not 0 the division by var1 is made.
C7_ZeroFactor ==
    (call.op = "read_pressure" /\ PressureRead) =>
        IF BigIsZero(Var1Factor(sensor[call.inst]))
        THEN /\ call.raised = ""
             /\ Has(call, "ret")
             /\ BigIsZero(call.ret)
             /\ ~call.divided
        ELSE call.divided

\* a read_pressure that returned 0 because var1 was 0
C7_Witness ==
    /\ call.op = "read_pressure"
    /\ PressureRead
    /\ BigIsZero(Var1Factor(sensor[call.inst]))
    /\ Has(call, "ret")
    /\ ~call.divided

\* C8 as stated: FineTemperature is unset (0) exactly until the first
\* temperature read completes on the instance, and read_pressure makes its
\* side-effect temperature read if and only if none has completed.
C8_AsStated ==
    /\ \A i \in DOMAIN sensor :
          Usable(i) => (sensor[i]._tfine = 0 <=> ~hist[i].tempDone)
    /\ (call.op = "read_pressure" /\ Len(call.log) >= 3) =>
          (call.log[3].reg = 250 <=> ~call.hist0.tempDone)

\* the conversions of a call in the order it started to read their data:
\* "T" for the temperature block, "P" for the pressure block
RECURSIVE Conversions(_)
Conversions(log) ==
    IF log = << >> THEN << >>
    ELSE IF log[1].op = "readU8" /\ log[1].reg = 250
         THEN << "T" >> \o Conversions(Tail(log))
    ELSE IF log[1].op = "readU8" /\ log[1].reg = 247
         THEN << "P" >> \o Conversions(Tail(log))
    ELSE Conversions(Tail(log))

IsPrefix(s, t) == Len(s) <= Len(t) /\ s = SubSeq(t, 1, Len(s))

\* the raw code of the k-th conversion of the last call
RECURSIVE DataOf(_, _)
DataOf(log, k) ==
    IF log[1].op = "readU8" /\ log[1].reg \in {247, 250}
    THEN IF k = 1 THEN RawCode(<< log[1].val, log[2].val, log[3].val >>)
         ELSE DataOf(Tail(log), k - 1)
    ELSE DataOf(Tail(log), k)

\* C10: with channels 0 and 1 enabled, the pressure conversion comes before
\* the call's channel-1 temperature conversion; a temperature conversion
\* precedes the pressure conversion only when FineTemperature is 0 on entry,
\* and the call then makes two temperature conversions; otherwise the
\* pressure returned is compensated with the FineTemperature that the latest
\* temperature read of an earlier call cached.
C10_Order ==
    (call.op = "get_measurement" /\ {0, 1} \subseteq call.enabled) =>
        LET conv == Conversions(call.log)
            self == sensor[call.inst]
        IN  /\ IsPrefix(conv, IF call.tfine0 = 0 THEN << "T", "P", "T" >>
                              ELSE << "P", "T" >>)
            /\ call.raised = "" =>
                  IF call.tfine0 = 0
                  THEN /\ conv = << "T", "P", "T" >>
                       /\ call.ret[0].value =
                             Compensation(self, Fine(self, DataOf(call.log, 1)),
                                          DataOf(call.log, 2)).val
                  ELSE /\ conv = << "P", "T" >>
                       /\ call.hist0.lastFine = << call.tfine0 >>
                       /\ call.ret[0].value =
                             Compensation(self, call.tfine0, DataOf(call.log, 1)).val

\* a call with channels 0 and 1 that found a FineTemperature cached, and whose
\* own temperature conversion then changed it
C10_Witness ==
    /\ call.op = "get_measurement"
    /\ {0, 1} \subseteq call.enabled
    /\ call.raised = ""
    /\ call.tfine0 # 0
    /\ sensor[call.inst]._tfine # call.tfine0
    /\ Conversions(call.log) = << "P", "T" >>

====
